---- MODULE Spec2Model ----
(***************************************************************************)
(* The three scripts of the repository as one state machine:               *)
(*   DetProperties.py   - sweep over 3 initial conditions x 30 mixtures,   *)
(*                        five result arrays, five figures                 *)
(*   demo_CJstate.py    - sweep over 12 mixtures, one array, one figure    *)
(*   ZNDDetPostShock.py - one mixture, post-shock ignition scan            *)
(* A behaviour is one run of one script.  Python floats are modelled as    *)
(* exact rationals <<n, d>> in lowest terms (no rounding).  The external   *)
(* thermochemistry library is modelled by deterministic stand-in functions *)
(* of the arguments it receives (and of `seed`, which selects one of a few *)
(* library behaviours), each call of which may also raise.                 *)
(***************************************************************************)
EXTENDS Integers, Sequences, FiniteSets, TLC

(* ------------------------------ bounds -------------------------------- *)
\* number of scan steps of the ZND script (300000 in the source, line 40)
n_steps == 4
\* number of library behaviours explored
MaxSeed == 2

(* ------------------------- program constants -------------------------- *)
\* np.linspace(2.2, 9.2, 30)
NCompDet == 30
\* np.linspace(2.2, 9.2, 12)
NCompDemo == 12
\* ct.one_atm, and the literal 101325 of the scripts
one_atm == 101325

(* ------------------------ rational arithmetic ------------------------- *)
\* Euclid's algorithm (a function, so that its arguments are values)
gcd[a \in Nat, b \in Nat] == IF b = 0 THEN a ELSE gcd[b, a % b]

Abs(n) == IF n < 0 THEN -n ELSE n

\* the fraction p[1] / p[2] in lowest terms, with a positive denominator
lowest[p \in Int \X Int] ==
    LET s == IF p[2] < 0 THEN -1 ELSE 1
        g == gcd[Abs(p[1]), Abs(p[2])]
    IN  <<(s * p[1]) \div g, (s * p[2]) \div g>>

Norm(n, d) == lowest[<<n, d>>]

R(i) == <<i, 1>>
\* sums are formed over the least common denominator
RAdd(a, b) ==
    Norm(a[1] * (b[2] \div gcd[a[2], b[2]]) + b[1] * (a[2] \div gcd[a[2], b[2]]),
         a[2] * (b[2] \div gcd[a[2], b[2]]))
RSub(a, b) == RAdd(a, <<-b[1], b[2]>>)
RMul(a, b) == Norm(a[1] * b[1], a[2] * b[2])
RDiv(a, b) == Norm(a[1] * b[2], a[2] * b[1])

RFloor(a) == a[1] \div a[2]

\* np.linspace(start, stop, num), indexed from 0
Linspace(start, stop, num) ==
    [i \in 0..(num - 1) |->
        RAdd(start, RDiv(RMul(R(i), RSub(stop, start)), R(num - 1)))]

\* np.zeros_like(a) for a one-dimensional array
ZerosLike(a) == [i \in DOMAIN a |-> R(0)]

(* ------------------------------ state --------------------------------- *)
VARIABLES
    script,   \* which script this run executes
    seed,     \* which behaviour of the external library this run sees
    backend,  \* matplotlib backend: "gui" (show() blocks, window closed) or "agg"
    pc,       \* position in the script
    exc,      \* the unhandled exception that ended the run ("" if none)
    loc,      \* the script's scalar and object variables
    heap,     \* array storage: a sequence of buffers
    arr,      \* array variable name -> index of its buffer in heap
    nwrites,  \* per array variable and cell, the number of element stores
    log,      \* every call into the external library, in order
    stdout,   \* what was printed, in order
    curfig,   \* the curves on matplotlib's current figure
    figs      \* the figures saved, in order

vars == <<script, seed, backend, pc, exc, loc, heap, arr, nwrites, log,
          stdout, curfig, figs>>

(* ------------------- the external library (stand-ins) ----------------- *)
\* a number that separates the argument triples the scripts use
Key(P1, T1, q) ==
    (T1 \div 100) * 1000 + (P1 \div 100000) * 100 + RFloor(RMul(q.C3H8, R(10)))

\* density of a gas at T, P, X
GasDensity(T, P, X) == 1 + ((Key(P, T, X) + seed) % 5)

\* ct.Solution(mech): a gas object in the mechanism's default state
Solution(mech) ==
    [mech |-> mech, T |-> 300, P |-> one_atm,
     X |-> [C3H8 |-> R(0), O2 |-> R(0), N2 |-> R(1)],
     density |-> 1, entropy_mass |-> 7000]

\* gas.TPX = T, P, X
SetTPX(gas, T, P, X) ==
    [gas EXCEPT !.T = T, !.P = P, !.X = X,
                !.density = GasDensity(T, P, X),
                !.entropy_mass = 6000 + Key(P, T, X)]

\* sdtoolbox.postshock.CJspeed
CJspeedValue(P1, T1, q, mech) == 1000 + Key(P1, T1, q) + seed
CJspeed(P1, T1, q, mech, fullOutput) ==
    IF fullOutput THEN <<CJspeedValue(P1, T1, q, mech), 1, <<>>>>
    ELSE CJspeedValue(P1, T1, q, mech)

\* sdtoolbox.postshock.PostShock_eq
PostShock_eq(U, P1, T1, q, mech) ==
    [mech |-> mech, T |-> 2000 + (U % 1000), P |-> 15 * P1 + U, X |-> q,
     density |-> GasDensity(T1, P1, q) + 1 + (U % 4),
     entropy_mass |-> 9000 + (U % 100)]

\* sdtoolbox.postshock.PostShock_fr
PostShock_fr(U, P1, T1, q, mech) ==
    [mech |-> mech, T |-> 1400 + (U % 500), P |-> 30 * P1 + U, X |-> q,
     density |-> GasDensity(T1, P1, q) + 2 + (U % 3),
     entropy_mass |-> 8000 + (U % 100)]

\* sdtoolbox.thermo.soundspeed_eq, soundspeed_fr
soundspeed_eq(gas) == 300 + ((gas.T + (gas.P \div 1000) + gas.density) % 700)
soundspeed_fr(gas) == 350 + ((gas.T + (gas.P \div 1000) + gas.density) % 700)

\* the grid point the script is at (for the call log and the print log)
Point ==
    IF script = "DetProperties" THEN <<loc.IC, loc.idx>>
    ELSE IF script = "demo_CJstate" THEN <<0, loc.idx>>
    ELSE <<0, 0>>

\* one entry of the call log
Call(fn, args, ret, ok) ==
    [fn |-> fn, args |-> args, ret |-> ret, ok |-> ok, point |-> Point]

(* --------------------------- exceptions ------------------------------- *)
\* faulty variant: the failure is recorded but the statement is executed again
ThrowAndRetry(fn, args) ==
    /\ log' = Append(log, Call(fn, args, 0, FALSE))
    /\ exc' = fn
    /\ UNCHANGED <<script, seed, backend, pc, loc, heap, arr, nwrites, stdout,
                   curfig, figs>>

\* A library call raises.  No script has a try/except, so the exception is
\* unhandled and the interpreter exits.
Throw(fn, args) ==
    /\ log' = Append(log, Call(fn, args, 0, FALSE))
    /\ exc' = fn
    /\ pc' = "exit"
    /\ UNCHANGED <<script, seed, backend, loc, heap, arr, nwrites, stdout,
                   curfig, figs>>

(* ----------------------------- arrays --------------------------------- *)
\* faulty variant: once a stacked array exists it is handed out again, so that the
\* arrays stacked later share its storage
NpStackShared(h, rows) ==
    IF Len(h) >= 3
    THEN [heap |-> h, ref |-> 3]
    ELSE [heap |-> Append(h, [i \in 0..(Len(rows) - 1) |-> h[rows[i + 1]]]),
          ref |-> Len(h) + 1]

\* np.stack((a, b, c)): a new two-dimensional array holding copies of the rows
NpStack(h, rows) ==
    [heap |-> Append(h, [i \in 0..(Len(rows) - 1) |-> h[rows[i + 1]]]),
     ref |-> Len(h) + 1]

\* a new one-dimensional array
NpNew(h, a) == [heap |-> Append(h, a), ref |-> Len(h) + 1]

\* faulty variant: the row index is dropped
Store2FirstRow(h, ref, i, j, v) == [h EXCEPT ![ref][0][j] = v]

\* a[i, j] = v
Store2(h, ref, i, j, v) == [h EXCEPT ![ref][i][j] = v]
\* a[j] = v
Store1(h, ref, j, v) == [h EXCEPT ![ref][j] = v]

Count2(n, name, i, j) == [n EXCEPT ![name][i][j] = @ + 1]

(* ============================ DetProperties =========================== *)
DetArrays == {"detionation_speed", "detonation_speed", "detonation_mach",
              "product_temp", "product_press", "product_specificheat",
              "calc_detspeed"}

NoGas == [mech |-> "", T |-> 0, P |-> 0,
          X |-> [C3H8 |-> R(0), O2 |-> R(0), N2 |-> R(0)],
          density |-> 0, entropy_mass |-> 0]

DP_InitLoc ==
    [IC |-> 0, idx |-> 0, iterIC |-> 0, iterIdx |-> 0,
     inittemp |-> <<>>, initpress |-> <<>>,
     propane_comp |-> R(0), HC_comp |-> R(0), O_comp |-> R(0),
     N2_comp |-> R(0), P1 |-> 0, T1 |-> 0,
     q |-> [C3H8 |-> R(0), O2 |-> R(0), N2 |-> R(0)], mech |-> "",
     gas_initial |-> NoGas, rho_1 |-> 0, csound |-> 0, cj_speed |-> 0,
     R2 |-> 0, gas |-> NoGas, ae |-> 0, af |-> 0, rho_2 |-> 0,
     gammae |-> R(0), gammaf |-> R(0), w2 |-> R(0), u2 |-> R(0),
     D |-> 0, mach |-> R(0)]

\* lines 37-52: the parameter grid and the result arrays
DP_Allocate ==
    /\ script = "DetProperties" /\ pc = "start"
    /\ LET a0 == NpNew(heap, Linspace(<<22, 10>>, <<92, 10>>, NCompDet))
           a1 == NpNew(a0.heap, ZerosLike(a0.heap[a0.ref]))
           p  == a1.ref
           a2 == NpStack(a1.heap, <<p, p, p>>)
           a3 == NpStack(a2.heap, <<p, p, p>>)
           a4 == NpStack(a3.heap, <<p, p, p>>)
           a5 == NpStack(a4.heap, <<p, p, p>>)
           a6 == NpStack(a5.heap, <<p, p, p>>)
           a7 == NpStack(a6.heap, <<p, p, p>>)
           a8 == NpStack(a7.heap, <<p, p, p>>)
       IN  /\ heap' = a8.heap
           /\ arr' = [compositions |-> a0.ref, property_array |-> a1.ref,
                      detionation_speed |-> a2.ref,
                      detonation_speed |-> a3.ref,
                      detonation_mach |-> a4.ref,
                      product_temp |-> a5.ref,
                      product_press |-> a6.ref,
                      product_specificheat |-> a7.ref,
                      calc_detspeed |-> a8.ref]
    /\ loc' = [loc EXCEPT !.inittemp = <<300, 300, 600>>,
                          !.initpress = <<100, 500, 100>>]
    /\ nwrites' = [n \in DetArrays |->
                     [i \in 0..2 |-> [j \in 0..(NCompDet - 1) |-> 0]]]
    /\ pc' = "for_IC"
    /\ UNCHANGED <<script, seed, backend, exc, log, stdout, curfig, figs>>

\* line 54: for IC, _ in enumerate(inittemp)
DP_ForIC ==
    /\ script = "DetProperties" /\ pc = "for_IC"
    /\ IF loc.iterIC < Len(loc.inittemp)
       THEN /\ loc' = [loc EXCEPT !.IC = loc.iterIC, !.iterIC = @ + 1,
                                  !.iterIdx = 0]
            /\ pc' = "for_idx"
       ELSE /\ pc' = "plot_speed"
            /\ UNCHANGED loc
    /\ UNCHANGED <<script, seed, backend, exc, heap, arr, nwrites, log,
                   stdout, curfig, figs>>

\* line 55: for idx, propane_comp in enumerate(compositions)
DP_ForIdx ==
    /\ script = "DetProperties" /\ pc = "for_idx"
    /\ IF loc.iterIdx < NCompDet
       THEN /\ loc' = [loc EXCEPT
                         !.idx = loc.iterIdx, !.iterIdx = @ + 1,
                         !.propane_comp = heap[arr.compositions][loc.iterIdx]]
            /\ pc' = "body"
       ELSE /\ pc' = "for_IC"
            /\ UNCHANGED loc
    /\ UNCHANGED <<script, seed, backend, exc, heap, arr, nwrites, log,
                   stdout, curfig, figs>>

\* faulty variant: nitrogen share 0.78
CompositionShort(fuel, whole) ==
    [C3H8 |-> fuel,
     O2 |-> RMul(RSub(R(whole), fuel), <<21, 100>>),
     N2 |-> RMul(RSub(R(whole), fuel), <<78, 100>>)]

\* the composition mapping built from a fuel amount, on a scale of `whole`
Composition(fuel, whole) ==
    [C3H8 |-> fuel,
     O2 |-> RMul(RSub(R(whole), fuel), <<21, 100>>),
     N2 |-> RMul(RSub(R(whole), fuel), <<79, 100>>)]

\* lines 63-71: composition, initial pressure and temperature, mechanism
DP_Body ==
    /\ script = "DetProperties" /\ pc = "body"
    /\ LET HC_comp == loc.propane_comp
           q == Composition(HC_comp, 100)
       IN  loc' = [loc EXCEPT !.HC_comp = HC_comp, !.O_comp = q.O2,
                              !.N2_comp = q.N2,
                              !.P1 = loc.initpress[loc.IC + 1] * 1000,
                              !.T1 = loc.inittemp[loc.IC + 1],
                              !.q = q, !.mech = "gri30.cti"]
    /\ pc' = "Solution"
    /\ UNCHANGED <<script, seed, backend, exc, heap, arr, nwrites, log,
                   stdout, curfig, figs>>

\* line 73: gas_initial = ct.Solution(mech)
DP_Solution ==
    /\ script = "DetProperties" /\ pc = "Solution"
    /\ \/ /\ loc' = [loc EXCEPT !.gas_initial = Solution(loc.mech)]
          /\ log' = Append(log, Call("Solution", <<loc.mech>>,
                                     Solution(loc.mech), TRUE))
          /\ pc' = "TPX"
          /\ UNCHANGED <<script, seed, backend, exc, heap, arr, nwrites,
                         stdout, curfig, figs>>
       \/ Throw("Solution", <<loc.mech>>)

\* lines 74-75: gas_initial.TPX = T1, P1, q; rho_1 = gas_initial.density
DP_SetTPX ==
    /\ script = "DetProperties" /\ pc = "TPX"
    /\ \/ LET g == SetTPX(loc.gas_initial, loc.T1, loc.P1, loc.q)
          IN  /\ loc' = [loc EXCEPT !.gas_initial = g, !.rho_1 = g.density]
              /\ log' = Append(log, Call("TPX", <<loc.T1, loc.P1, loc.q>>,
                                         g, TRUE))
              /\ pc' = "csound"
              /\ UNCHANGED <<script, seed, backend, exc, heap, arr, nwrites,
                             stdout, curfig, figs>>
       \/ Throw("TPX", <<loc.T1, loc.P1, loc.q>>)

\* line 76: csound = soundspeed_eq(gas_initial)
DP_Csound ==
    /\ script = "DetProperties" /\ pc = "csound"
    /\ \/ /\ loc' = [loc EXCEPT !.csound = soundspeed_eq(loc.gas_initial)]
          /\ log' = Append(log, Call("soundspeed_eq", <<loc.gas_initial>>,
                                     soundspeed_eq(loc.gas_initial), TRUE))
          /\ pc' = "CJspeed"
          /\ UNCHANGED <<script, seed, backend, exc, heap, arr, nwrites,
                         stdout, curfig, figs>>
       \/ Throw("soundspeed_eq", <<loc.gas_initial>>)

\* lines 79-80: [cj_speed, R2, plot_data] = CJspeed(P1, T1, q, mech, fullOutput=True)
DP_CJspeed ==
    /\ script = "DetProperties" /\ pc = "CJspeed"
    /\ LET args == <<loc.P1, loc.T1, loc.q, loc.mech, TRUE>>
           ret == CJspeed(loc.P1, loc.T1, loc.q, loc.mech, TRUE)
       IN  \/ /\ loc' = [loc EXCEPT !.cj_speed = ret[1], !.R2 = ret[2]]
              /\ log' = Append(log, Call("CJspeed", args, ret, TRUE))
              /\ pc' = "PostShock"
              /\ UNCHANGED <<script, seed, backend, exc, heap, arr, nwrites,
                             stdout, curfig, figs>>
           \/ Throw("CJspeed", args)

\* faulty variant: pressure and temperature passed in the other order
DP_PostShockSwapped ==
    /\ script = "DetProperties" /\ pc = "PostShock"
    /\ LET args == <<loc.cj_speed, loc.T1, loc.P1, loc.q, loc.mech>>
           ret == PostShock_eq(loc.cj_speed, loc.T1, loc.P1, loc.q, loc.mech)
       IN  \/ /\ loc' = [loc EXCEPT !.gas = ret]
              /\ log' = Append(log, Call("PostShock_eq", args, ret, TRUE))
              /\ pc' = "ae"
              /\ UNCHANGED <<script, seed, backend, exc, heap, arr, nwrites,
                             stdout, curfig, figs>>
           \/ Throw("PostShock_eq", args)

\* line 82: gas = PostShock_eq(cj_speed, P1, T1, q, mech)
DP_PostShock ==
    /\ script = "DetProperties" /\ pc = "PostShock"
    /\ LET args == <<loc.cj_speed, loc.P1, loc.T1, loc.q, loc.mech>>
           ret == PostShock_eq(loc.cj_speed, loc.P1, loc.T1, loc.q, loc.mech)
       IN  \/ /\ loc' = [loc EXCEPT !.gas = ret]
              /\ log' = Append(log, Call("PostShock_eq", args, ret, TRUE))
              /\ pc' = "ae"
              /\ UNCHANGED <<script, seed, backend, exc, heap, arr, nwrites,
                             stdout, curfig, figs>>
           \/ Throw("PostShock_eq", args)

\* line 83: ae = soundspeed_eq(gas)
DP_SoundEq ==
    /\ script = "DetProperties" /\ pc = "ae"
    /\ \/ /\ loc' = [loc EXCEPT !.ae = soundspeed_eq(loc.gas)]
          /\ log' = Append(log, Call("soundspeed_eq", <<loc.gas>>,
                                     soundspeed_eq(loc.gas), TRUE))
          /\ pc' = "af"
          /\ UNCHANGED <<script, seed, backend, exc, heap, arr, nwrites,
                         stdout, curfig, figs>>
       \/ Throw("soundspeed_eq", <<loc.gas>>)

\* line 84: af = soundspeed_fr(gas)
DP_SoundFr ==
    /\ script = "DetProperties" /\ pc = "af"
    /\ \/ /\ loc' = [loc EXCEPT !.af = soundspeed_fr(loc.gas)]
          /\ log' = Append(log, Call("soundspeed_fr", <<loc.gas>>,
                                     soundspeed_fr(loc.gas), TRUE))
          /\ pc' = "derive"
          /\ UNCHANGED <<script, seed, backend, exc, heap, arr, nwrites,
                         stdout, curfig, figs>>
       \/ Throw("soundspeed_fr", <<loc.gas>>)

\* line 91: Dcalc = (1.29 + 1)/1.29 * sqrt(1.29*8314*2700/28), kept symbolic
Dcalc == [coef |-> RDiv(<<229, 100>>, <<129, 100>>),
          sqrt_of |-> Norm(129 * 8314 * 27, 28)]

\* faulty variant: the density ratio inverted
DeriveInverted(cj_speed, rho_1, csound, gas, ae, af) ==
    LET rho_2 == gas.density
        w2 == RDiv(RMul(R(cj_speed), R(rho_2)), R(rho_1))
        D == cj_speed
    IN  [rho_2 |-> rho_2,
         gammae |-> RDiv(RMul(R(ae * ae), R(rho_2)), R(gas.P)),
         gammaf |-> RDiv(RMul(R(af * af), R(rho_2)), R(gas.P)),
         w2 |-> w2,
         u2 |-> RSub(R(cj_speed), w2),
         D |-> D,
         mach |-> RDiv(R(D), R(csound))]

\* lines 85-92: the derived quantities
Derive(cj_speed, rho_1, csound, gas, ae, af) ==
    LET rho_2 == gas.density
        w2 == RDiv(RMul(R(cj_speed), R(rho_1)), R(rho_2))
        D == cj_speed
    IN  [rho_2 |-> rho_2,
         gammae |-> RDiv(RMul(R(ae * ae), R(rho_2)), R(gas.P)),
         gammaf |-> RDiv(RMul(R(af * af), R(rho_2)), R(gas.P)),
         w2 |-> w2,
         u2 |-> RSub(R(cj_speed), w2),
         D |-> D,
         mach |-> RDiv(R(D), R(csound))]

\* lines 85-118: derive, print, store into the result arrays
DP_Derive ==
    /\ script = "DetProperties" /\ pc = "derive"
    /\ LET d == Derive(loc.cj_speed, loc.rho_1, loc.csound, loc.gas,
                       loc.ae, loc.af)
           IC == loc.IC
           idx == loc.idx
           h1 == Store2(heap, arr.product_temp, IC, idx, R(loc.gas.T))
           h2 == Store2(h1, arr.detonation_speed, IC, idx, R(d.D))
           h3 == Store2(h2, arr.product_press, IC, idx, R(loc.gas.P))
           h4 == Store2(h3, arr.detonation_mach, IC, idx, d.mach)
           h5 == Store2(h4, arr.product_specificheat, IC, idx, d.gammaf)
           n1 == Count2(nwrites, "product_temp", IC, idx)
           n2 == Count2(n1, "detonation_speed", IC, idx)
           n3 == Count2(n2, "product_press", IC, idx)
           n4 == Count2(n3, "detonation_mach", IC, idx)
           n5 == Count2(n4, "product_specificheat", IC, idx)
       IN  /\ loc' = [loc EXCEPT !.rho_2 = d.rho_2, !.gammae = d.gammae,
                                 !.gammaf = d.gammaf, !.w2 = d.w2,
                                 !.u2 = d.u2, !.D = d.D, !.mach = d.mach]
           /\ stdout' = Append(stdout,
                  [line |-> "CJ state", mech |-> loc.mech, q |-> loc.q,
                   P1 |-> loc.P1,
                   T1 |-> loc.T1, cj_speed |-> loc.cj_speed,
                   P |-> loc.gas.P, T |-> loc.gas.T,
                   density |-> loc.gas.density,
                   entropy |-> loc.gas.entropy_mass,
                   w2 |-> d.w2, u2 |-> d.u2, af |-> loc.af, ae |-> loc.ae,
                   gammaf |-> d.gammaf, gammae |-> d.gammae,
                   csound |-> loc.csound, D |-> d.D, Dcalc |-> Dcalc,
                   mach |-> d.mach, rho_1 |-> loc.rho_1, rho_2 |-> d.rho_2,
                   point |-> <<IC, idx>>])
           /\ heap' = h5
           /\ nwrites' = n5
    /\ pc' = "for_idx"
    /\ UNCHANGED <<script, seed, backend, exc, arr, log, curfig, figs>>


(* ----------------------------- matplotlib ----------------------------- *)
NoFig == [curves |-> <<>>, legend |-> <<>>, xlabel |-> "", ylabel |-> "",
          title |-> ""]

\* plt.plot(x, y, fmt, label=label): one more curve on the current figure
PltPlot(fig, x, y, fmt, label) ==
    [fig EXCEPT !.curves =
        Append(@, [x |-> x, y |-> y, fmt |-> fmt, label |-> label])]

\* plt.legend(): a legend of the labels of the curves drawn so far
PltLegend(fig) ==
    [fig EXCEPT !.legend = [k \in 1..Len(fig.curves) |-> fig.curves[k].label]]

\* plt.xlabel, plt.ylabel, plt.title
PltLabels(fig, xlabel, ylabel, title) ==
    [fig EXCEPT !.xlabel = xlabel, !.ylabel = ylabel, !.title = title]

\* plt.savefig(figname): the current figure is written to the file
PltSavefig(saved, figname, fig) == Append(saved, [file |-> figname, fig |-> fig])

\* plt.show(): with a GUI backend it blocks until the window is closed, which
\* destroys the figure; with a non-GUI backend it returns at once and the
\* figure stays current
PltShow(fig) == IF backend = "gui" THEN NoFig ELSE fig

\* a / c, element-wise
ArrayDiv(a, c) == [j \in DOMAIN a |-> RDiv(a[j], R(c))]

\* faulty variant: the labels of the second and third curve exchanged
DP_DrawMislabelled(fig, y0, y1, y2, ylabel, title) ==
    LET x == heap[arr.compositions]
        f1 == PltPlot(fig, x, y0, "r-", "T$_0$=300 K, P$_0$=100 kPa")
        f2 == PltPlot(f1, x, y1, "g-", "T$_0$=600 K, P$_0$=100 kPa")
        f3 == PltPlot(f2, x, y2, "b-", "T$_0$=300 K, P$_0$=500 kPa")
    IN  PltLabels(PltLegend(f3), "C$_3$H$_8$ Initial Composition (%)",
                  ylabel, title)

\* the three plt.plot calls, legend, labels and title of one figure block
DP_Draw(fig, y0, y1, y2, ylabel, title) ==
    LET x == heap[arr.compositions]
        f1 == PltPlot(fig, x, y0, "r-", "T$_0$=300 K, P$_0$=100 kPa")
        f2 == PltPlot(f1, x, y1, "g-", "T$_0$=300 K, P$_0$=500 kPa")
        f3 == PltPlot(f2, x, y2, "b-", "T$_0$=600 K, P$_0$=100 kPa")
    IN  PltLabels(PltLegend(f3), "C$_3$H$_8$ Initial Composition (%)",
                  ylabel, title)

\* one figure block: draw, savefig, show
DP_Figure(at, y0, y1, y2, ylabel, title, figname, next) ==
    /\ script = "DetProperties" /\ pc = at
    /\ LET fig == DP_Draw(curfig, y0, y1, y2, ylabel, title)
       IN  /\ figs' = PltSavefig(figs, figname, fig)
           /\ curfig' = PltShow(fig)
    /\ pc' = next
    /\ UNCHANGED <<script, seed, backend, exc, loc, heap, arr, nwrites, log,
                   stdout>>

\* lines 120-129
DP_PlotSpeed ==
    LET a == heap[arr.detonation_speed]
    IN  DP_Figure("plot_speed", a[0], a[1], a[2], "Detonation Speed (m/s)",
                  "C3H8-Air Detonation Speed", "Figures/DetSpeed.png",
                  "plot_temp")

\* faulty variant: the temperature figure drawn from the speed array
DP_PlotTempFromSpeed ==
    LET a == heap[arr.detonation_speed]
    IN  DP_Figure("plot_temp", a[0], a[1], a[2], "Product Temperature (K)",
                  "C3H8-Air Detonation Product T", "Figures/DetTemp.png",
                  "plot_press")

\* lines 131-140
DP_PlotTemp ==
    LET a == heap[arr.product_temp]
    IN  DP_Figure("plot_temp", a[0], a[1], a[2], "Product Temperature (K)",
                  "C3H8-Air Detonation Product T", "Figures/DetTemp.png",
                  "plot_press")

\* lines 142-151
DP_PlotPress ==
    LET a == heap[arr.product_press]
    IN  DP_Figure("plot_press", ArrayDiv(a[0], 101325),
                  ArrayDiv(a[1], 101325), ArrayDiv(a[2], 101325),
                  "Product Pressure (atm)", "C3H8-Air Detonation Product P",
                  "Figures/DetPress.png", "plot_mach")

\* lines 153-162
DP_PlotMach ==
    LET a == heap[arr.detonation_mach]
    IN  DP_Figure("plot_mach", a[0], a[1], a[2],
                  "Detonation Mach Number (unitless)",
                  "C3H8-Air Detonation Mach Number", "Figures/DetMach.png",
                  "plot_specheat")

\* lines 164-173
DP_PlotSpecHeat ==
    LET a == heap[arr.product_specificheat]
    IN  DP_Figure("plot_specheat", a[0], a[1], a[2],
                  "Specific Heat Ratio (unitless)",
                  "C3H8-Air Specific Heat Ratio ($\\gamma$)",
                  "Figures/DetSpecHeat.png", "done")

(* ============================ demo_CJstate ============================ *)
Demo_InitLoc ==
    [idx |-> 0, iterIdx |-> 0, inittemp |-> 0, initpress |-> 0,
     propane_comp |-> R(0), HC_comp |-> R(0), O_comp |-> R(0),
     N2_comp |-> R(0), P1 |-> 0, T1 |-> 0,
     q |-> [C3H8 |-> R(0), O2 |-> R(0), N2 |-> R(0)], mech |-> "",
     gas_initial |-> NoGas, rho_1 |-> 0, cj_speed |-> 0, R2 |-> 0,
     gas |-> NoGas, ae |-> 0, af |-> 0, rho_2 |-> 0,
     gammae |-> R(0), gammaf |-> R(0), w2 |-> R(0), u2 |-> R(0)]

\* lines 37-40
Demo_Allocate ==
    /\ script = "demo_CJstate" /\ pc = "start"
    /\ LET a0 == NpNew(heap, Linspace(<<22, 10>>, <<92, 10>>, NCompDemo))
           a1 == NpNew(a0.heap, ZerosLike(a0.heap[a0.ref]))
       IN  /\ heap' = a1.heap
           /\ arr' = [compositions |-> a0.ref, detonation_speed |-> a1.ref]
    /\ loc' = [loc EXCEPT !.inittemp = 300, !.initpress = 100]
    /\ nwrites' = [n \in {"detonation_speed"} |->
                     [i \in 0..0 |-> [j \in 0..(NCompDemo - 1) |-> 0]]]
    /\ pc' = "for_idx"
    /\ UNCHANGED <<script, seed, backend, exc, log, stdout, curfig, figs>>

\* line 42: for idx, propane_comp in enumerate(compositions)
Demo_ForIdx ==
    /\ script = "demo_CJstate" /\ pc = "for_idx"
    /\ IF loc.iterIdx < NCompDemo
       THEN /\ loc' = [loc EXCEPT
                         !.idx = loc.iterIdx, !.iterIdx = @ + 1,
                         !.propane_comp = heap[arr.compositions][loc.iterIdx]]
            /\ pc' = "body"
       ELSE /\ pc' = "plot"
            /\ UNCHANGED loc
    /\ UNCHANGED <<script, seed, backend, exc, heap, arr, nwrites, log,
                   stdout, curfig, figs>>

\* lines 50-58
Demo_Body ==
    /\ script = "demo_CJstate" /\ pc = "body"
    /\ LET HC_comp == loc.propane_comp
           q == Composition(HC_comp, 100)
       IN  loc' = [loc EXCEPT !.HC_comp = HC_comp, !.O_comp = q.O2,
                              !.N2_comp = q.N2,
                              !.P1 = loc.initpress * 1000,
                              !.T1 = loc.inittemp,
                              !.q = q, !.mech = "gri30.cti"]
    /\ pc' = "Solution"
    /\ UNCHANGED <<script, seed, backend, exc, heap, arr, nwrites, log,
                   stdout, curfig, figs>>

\* line 60
Demo_Solution ==
    /\ script = "demo_CJstate" /\ pc = "Solution"
    /\ \/ /\ loc' = [loc EXCEPT !.gas_initial = Solution(loc.mech)]
          /\ log' = Append(log, Call("Solution", <<loc.mech>>,
                                     Solution(loc.mech), TRUE))
          /\ pc' = "TPX"
          /\ UNCHANGED <<script, seed, backend, exc, heap, arr, nwrites,
                         stdout, curfig, figs>>
       \/ Throw("Solution", <<loc.mech>>)

\* lines 61-62
Demo_SetTPX ==
    /\ script = "demo_CJstate" /\ pc = "TPX"
    /\ \/ LET g == SetTPX(loc.gas_initial, loc.T1, loc.P1, loc.q)
          IN  /\ loc' = [loc EXCEPT !.gas_initial = g, !.rho_1 = g.density]
              /\ log' = Append(log, Call("TPX", <<loc.T1, loc.P1, loc.q>>,
                                         g, TRUE))
              /\ pc' = "CJspeed"
              /\ UNCHANGED <<script, seed, backend, exc, heap, arr, nwrites,
                             stdout, curfig, figs>>
       \/ Throw("TPX", <<loc.T1, loc.P1, loc.q>>)

\* lines 65-67: CJspeed, print, detonation_speed[idx] = cj_speed
Demo_CJspeed ==
    /\ script = "demo_CJstate" /\ pc = "CJspeed"
    /\ LET args == <<loc.P1, loc.T1, loc.q, loc.mech, TRUE>>
           ret == CJspeed(loc.P1, loc.T1, loc.q, loc.mech, TRUE)
       IN  \/ /\ loc' = [loc EXCEPT !.cj_speed = ret[1], !.R2 = ret[2]]
              /\ log' = Append(log, Call("CJspeed", args, ret, TRUE))
              /\ stdout' = Append(stdout,
                     [line |-> "CJspeed", value |-> ret, point |-> Point])
              /\ heap' = Store1(heap, arr.detonation_speed, loc.idx,
                                R(ret[1]))
              /\ nwrites' = Count2(nwrites, "detonation_speed", 0, loc.idx)
              /\ pc' = "PostShock"
              /\ UNCHANGED <<script, seed, backend, exc, arr, curfig, figs>>
           \/ Throw("CJspeed", args)

\* line 69
Demo_PostShock ==
    /\ script = "demo_CJstate" /\ pc = "PostShock"
    /\ LET args == <<loc.cj_speed, loc.P1, loc.T1, loc.q, loc.mech>>
           ret == PostShock_eq(loc.cj_speed, loc.P1, loc.T1, loc.q, loc.mech)
       IN  \/ /\ loc' = [loc EXCEPT !.gas = ret]
              /\ log' = Append(log, Call("PostShock_eq", args, ret, TRUE))
              /\ pc' = "ae"
              /\ UNCHANGED <<script, seed, backend, exc, heap, arr, nwrites,
                             stdout, curfig, figs>>
           \/ Throw("PostShock_eq", args)

\* line 70
Demo_SoundEq ==
    /\ script = "demo_CJstate" /\ pc = "ae"
    /\ \/ /\ loc' = [loc EXCEPT !.ae = soundspeed_eq(loc.gas)]
          /\ log' = Append(log, Call("soundspeed_eq", <<loc.gas>>,
                                     soundspeed_eq(loc.gas), TRUE))
          /\ pc' = "af"
          /\ UNCHANGED <<script, seed, backend, exc, heap, arr, nwrites,
                         stdout, curfig, figs>>
       \/ Throw("soundspeed_eq", <<loc.gas>>)

\* line 71
Demo_SoundFr ==
    /\ script = "demo_CJstate" /\ pc = "af"
    /\ \/ /\ loc' = [loc EXCEPT !.af = soundspeed_fr(loc.gas)]
          /\ log' = Append(log, Call("soundspeed_fr", <<loc.gas>>,
                                     soundspeed_fr(loc.gas), TRUE))
          /\ pc' = "derive"
          /\ UNCHANGED <<script, seed, backend, exc, heap, arr, nwrites,
                         stdout, curfig, figs>>
       \/ Throw("soundspeed_fr", <<loc.gas>>)

\* lines 72-76: the derived quantities
DemoDerive(cj_speed, rho_1, gas, ae, af) ==
    LET rho_2 == gas.density
        w2 == RDiv(RMul(R(cj_speed), R(rho_1)), R(rho_2))
    IN  [rho_2 |-> rho_2,
         gammae |-> RDiv(RMul(R(ae * ae), R(rho_2)), R(gas.P)),
         gammaf |-> RDiv(RMul(R(af * af), R(rho_2)), R(gas.P)),
         w2 |-> w2,
         u2 |-> RSub(R(cj_speed), w2)]

\* lines 72-91: derive and print
Demo_Derive ==
    /\ script = "demo_CJstate" /\ pc = "derive"
    /\ LET d == DemoDerive(loc.cj_speed, loc.rho_1, loc.gas, loc.ae, loc.af)
       IN  /\ loc' = [loc EXCEPT !.rho_2 = d.rho_2, !.gammae = d.gammae,
                                 !.gammaf = d.gammaf, !.w2 = d.w2,
                                 !.u2 = d.u2]
           /\ stdout' = Append(stdout,
                  [line |-> "CJ state", mech |-> loc.mech, q |-> loc.q,
                   P1 |-> loc.P1, T1 |-> loc.T1, cj_speed |-> loc.cj_speed,
                   P |-> loc.gas.P, T |-> loc.gas.T,
                   density |-> loc.gas.density,
                   entropy |-> loc.gas.entropy_mass,
                   w2 |-> d.w2, u2 |-> d.u2, af |-> loc.af, ae |-> loc.ae,
                   gammaf |-> d.gammaf, gammae |-> d.gammae,
                   rho_1 |-> loc.rho_1, rho_2 |-> d.rho_2,
                   point |-> Point])
    /\ pc' = "for_idx"
    /\ UNCHANGED <<script, seed, backend, exc, heap, arr, nwrites, log,
                   curfig, figs>>

\* lines 93-100
Demo_Plot ==
    /\ script = "demo_CJstate" /\ pc = "plot"
    /\ LET f1 == PltPlot(curfig, heap[arr.compositions],
                         heap[arr.detonation_speed], "k--",
                         "Detonation Speed")
           fig == PltLabels(PltLegend(f1), "$C_3H_8$ Initial Composition (%)",
                      "Detonation Speed (m/s)",
                      "$C_3H_8$ Detonation Speed with T$_0$="
                          \o ToString(loc.inittemp) \o " K, P$_0$="
                          \o ToString(loc.initpress) \o " kPa")
           figname == "Figures/DetSpeedT" \o ToString(loc.inittemp) \o "KP"
                          \o ToString(loc.initpress) \o "kPa.png"
       IN  /\ figs' = PltSavefig(figs, figname, fig)
           /\ curfig' = PltShow(fig)
    /\ pc' = "done"
    /\ UNCHANGED <<script, seed, backend, exc, loc, heap, arr, nwrites, log,
                   stdout>>

(* =========================== ZNDDetPostShock ========================== *)
ZND_InitLoc ==
    [inittemp |-> 0, initpress |-> 0, HC_comp |-> R(0), O_comp |-> R(0),
     N2_comp |-> R(0), q |-> [C3H8 |-> R(0), O2 |-> R(0), N2 |-> R(0)],
     mech |-> "", preshockgas |-> NoGas, cj_speed |-> 0,
     postshockgas |-> NoGas, shockedpress |-> R(0), shockedtemp |-> 0,
     n_steps |-> 0, r1 |-> [thermo |-> ""],
     sim1 |-> [reactors |-> <<>>, time |-> R(0)],
     dt |-> R(0), det_time |-> R(0), timesteps |-> <<>>, iterT |-> 0,
     t_i |-> R(0)]

\* lines 12-23: initial state, composition, mechanism, header lines
ZND_Setup ==
    /\ script = "ZNDDetPostShock" /\ pc = "start"
    /\ LET q == Composition(Norm(92, 1000), 1)
       IN  /\ loc' = [loc EXCEPT !.inittemp = 300, !.initpress = 1,
                                 !.HC_comp = q.C3H8, !.O_comp = q.O2,
                                 !.N2_comp = q.N2, !.q = q,
                                 !.mech = "gri30.cti"]
           /\ stdout' = Append(stdout,
                  [line |-> "header", mech |-> "gri30.cti", q |-> q,
                   initpress |-> 1, inittemp |-> 300])
    /\ pc' = "Solution"
    /\ UNCHANGED <<script, seed, backend, exc, heap, arr, nwrites, log,
                   curfig, figs>>

\* line 25: preshockgas = ct.Solution(mech)
ZND_Solution ==
    /\ script = "ZNDDetPostShock" /\ pc = "Solution"
    /\ \/ /\ loc' = [loc EXCEPT !.preshockgas = Solution(loc.mech)]
          /\ log' = Append(log, Call("Solution", <<loc.mech>>,
                                     Solution(loc.mech), TRUE))
          /\ pc' = "TPX"
          /\ UNCHANGED <<script, seed, backend, exc, heap, arr, nwrites,
                         stdout, curfig, figs>>
       \/ Throw("Solution", <<loc.mech>>)

\* line 26: preshockgas.TPX = inittemp, initpress * ct.one_atm, q
ZND_SetTPX ==
    /\ script = "ZNDDetPostShock" /\ pc = "TPX"
    /\ LET args == <<loc.inittemp, loc.initpress * one_atm, loc.q>>
       IN  \/ LET g == SetTPX(loc.preshockgas, args[1], args[2], args[3])
              IN  /\ loc' = [loc EXCEPT !.preshockgas = g]
                  /\ log' = Append(log, Call("TPX", args, g, TRUE))
                  /\ pc' = "CJspeed"
                  /\ UNCHANGED <<script, seed, backend, exc, heap, arr,
                                 nwrites, stdout, curfig, figs>>
           \/ Throw("TPX", args)

\* line 29: cj_speed = CJspeed(initpress*ct.one_atm, inittemp, q, mech, fullOutput=False)
ZND_CJspeed ==
    /\ script = "ZNDDetPostShock" /\ pc = "CJspeed"
    /\ LET args == <<loc.initpress * one_atm, loc.inittemp, loc.q, loc.mech,
                     FALSE>>
           ret == CJspeed(loc.initpress * one_atm, loc.inittemp, loc.q,
                          loc.mech, FALSE)
       IN  \/ /\ loc' = [loc EXCEPT !.cj_speed = ret]
              /\ log' = Append(log, Call("CJspeed", args, ret, TRUE))
              /\ pc' = "PostShock"
              /\ UNCHANGED <<script, seed, backend, exc, heap, arr, nwrites,
                             stdout, curfig, figs>>
           \/ Throw("CJspeed", args)

\* line 32: postshockgas = PostShock_fr(cj_speed, initpress*ct.one_atm, inittemp, q, mech)
ZND_PostShock ==
    /\ script = "ZNDDetPostShock" /\ pc = "PostShock"
    /\ LET args == <<loc.cj_speed, loc.initpress * one_atm, loc.inittemp,
                     loc.q, loc.mech>>
           ret == PostShock_fr(loc.cj_speed, loc.initpress * one_atm,
                               loc.inittemp, loc.q, loc.mech)
       IN  \/ /\ loc' = [loc EXCEPT !.postshockgas = ret]
              /\ log' = Append(log, Call("PostShock_fr", args, ret, TRUE))
              /\ pc' = "record"
              /\ UNCHANGED <<script, seed, backend, exc, heap, arr, nwrites,
                             stdout, curfig, figs>>
           \/ Throw("PostShock_fr", args)

\* lines 34-40: record and print the frozen post-shock state; n_steps
ZND_Record ==
    /\ script = "ZNDDetPostShock" /\ pc = "record"
    /\ loc' = [loc EXCEPT
                 !.shockedpress = RDiv(R(loc.postshockgas.P), R(101325)),
                 !.shockedtemp = loc.postshockgas.T,
                 !.n_steps = n_steps]
    /\ stdout' = Append(stdout,
           [line |-> "postshock",
            P |-> RDiv(R(loc.postshockgas.P), R(101325)),
            T |-> loc.postshockgas.T])
    /\ pc' = "Reactor"
    /\ UNCHANGED <<script, seed, backend, exc, heap, arr, nwrites, log,
                   curfig, figs>>

\* line 43: r1 = ct.IdealGasConstPressureReactor(postshockgas); the reactor
\* keeps the gas object itself, not a copy
ZND_Reactor ==
    /\ script = "ZNDDetPostShock" /\ pc = "Reactor"
    /\ \/ /\ loc' = [loc EXCEPT !.r1 = [thermo |-> "postshockgas"]]
          /\ log' = Append(log, Call("IdealGasConstPressureReactor",
                                     <<"postshockgas">>, 0, TRUE))
          /\ pc' = "ReactorNet"
          /\ UNCHANGED <<script, seed, backend, exc, heap, arr, nwrites,
                         stdout, curfig, figs>>
       \/ Throw("IdealGasConstPressureReactor", <<"postshockgas">>)

\* line 45: sim1 = ct.ReactorNet([r1])
ZND_ReactorNet ==
    /\ script = "ZNDDetPostShock" /\ pc = "ReactorNet"
    /\ \/ /\ loc' = [loc EXCEPT !.sim1 = [reactors |-> <<"r1">>,
                                          time |-> R(0)]]
          /\ log' = Append(log, Call("ReactorNet", <<"r1">>, 0, TRUE))
          /\ pc' = "timesteps"
          /\ UNCHANGED <<script, seed, backend, exc, heap, arr, nwrites,
                         stdout, curfig, figs>>
       \/ Throw("ReactorNet", <<"r1">>)

\* faulty variant: np.arange(n) * dt, the + 1 forgotten
TimestepsFromZero(n, dt) == [k \in 1..n |-> RMul(R(k - 1), dt)]

\* line 52: (np.arange(n) + 1) * dt
Timesteps(n, dt) == [k \in 1..n |-> RMul(R((k - 1) + 1), dt)]

\* lines 49-52: dt, det_time, timesteps
ZND_Timesteps ==
    /\ script = "ZNDDetPostShock" /\ pc = "timesteps"
    /\ LET dt == RDiv(<<25, 100>>, R(loc.n_steps))
       IN  loc' = [loc EXCEPT !.dt = dt, !.det_time = R(0),
                              !.timesteps = Timesteps(loc.n_steps, dt),
                              !.iterT = 0]
    /\ pc' = "for_t"
    /\ UNCHANGED <<script, seed, backend, exc, heap, arr, nwrites, log,
                   stdout, curfig, figs>>

\* line 53: for t_i in timesteps
ZND_ForT ==
    /\ script = "ZNDDetPostShock" /\ pc = "for_t"
    /\ IF loc.iterT < Len(loc.timesteps)
       THEN /\ loc' = [loc EXCEPT !.t_i = loc.timesteps[loc.iterT + 1],
                                  !.iterT = @ + 1]
            /\ pc' = "advance"
       ELSE /\ pc' = "print"
            /\ UNCHANGED loc
    /\ UNCHANGED <<script, seed, backend, exc, heap, arr, nwrites, log,
                   stdout, curfig, figs>>

\* the temperatures the reactor may have after an advance, as a rise over the
\* frozen post-shock temperature: below, at and above the ignition threshold
ReactorRise == {0, 150, 151}

\* lines 55-57: sim1.advance(t_i); det_time = t_i.  The integration moves the
\* state of the reactor's gas object.
ZND_Advance ==
    /\ script = "ZNDDetPostShock" /\ pc = "advance"
    /\ \/ \E rise \in ReactorRise :
            LET T == loc.shockedtemp + rise
            IN  /\ loc' = [loc EXCEPT !.sim1.time = loc.t_i,
                                      ![loc.r1.thermo].T = T,
                                      !.det_time = loc.t_i]
                /\ log' = Append(log, Call("advance", <<loc.t_i>>, T, TRUE))
                /\ pc' = "poll"
                /\ UNCHANGED <<script, seed, backend, exc, heap, arr,
                               nwrites, stdout, curfig, figs>>
       \/ Throw("advance", <<loc.t_i>>)

\* r1.thermo.state: the state vector [temperature, density, ...]; .T is the
\* transpose of that one-dimensional array, which is the array itself
ThermoState(gas) == <<gas.T, gas.density>>
Transpose(v) == v

\* faulty variant: >= in place of >
IgnitedAtThreshold(T, shockedtemp) == T >= shockedtemp + 150

\* line 60: r1.thermo.state.T[0] > shockedtemp + 150
Ignited(T, shockedtemp) == T > shockedtemp + 150

\* lines 60-61: if (...): break
ZND_Poll ==
    /\ script = "ZNDDetPostShock" /\ pc = "poll"
    /\ IF Ignited(Transpose(ThermoState(loc[loc.r1.thermo]))[1],
                  loc.shockedtemp)
       THEN pc' = "print"
       ELSE pc' = "for_t"
    /\ UNCHANGED <<script, seed, backend, exc, loc, heap, arr, nwrites, log,
                   stdout, curfig, figs>>

\* line 63: print the autoignition delay
ZND_Print ==
    /\ script = "ZNDDetPostShock" /\ pc = "print"
    /\ stdout' = Append(stdout, [line |-> "delay", det_time |-> loc.det_time])
    /\ pc' = "done"
    /\ UNCHANGED <<script, seed, backend, exc, loc, heap, arr, nwrites, log,
                   curfig, figs>>

(* ============================== the run =============================== *)
Scripts == {"DetProperties", "demo_CJstate", "ZNDDetPostShock"}

InitLoc(s) ==
    IF s = "DetProperties" THEN DP_InitLoc
    ELSE IF s = "demo_CJstate" THEN Demo_InitLoc
    ELSE ZND_InitLoc

Init ==
    /\ script \in Scripts
    /\ seed \in 1..MaxSeed
    /\ backend \in {"gui", "agg"}
    /\ pc = "start"
    /\ exc = ""
    /\ loc = InitLoc(script)
    /\ heap = <<>>
    /\ arr = <<>>
    /\ nwrites = <<>>
    /\ log = <<>>
    /\ stdout = <<>>
    /\ curfig = NoFig
    /\ figs = <<>>

Next ==
    \/ DP_Allocate \/ DP_ForIC \/ DP_ForIdx \/ DP_Body \/ DP_Solution
    \/ DP_SetTPX \/ DP_Csound \/ DP_CJspeed \/ DP_PostShock \/ DP_SoundEq
    \/ DP_SoundFr \/ DP_Derive
    \/ DP_PlotSpeed \/ DP_PlotTemp \/ DP_PlotPress \/ DP_PlotMach
    \/ DP_PlotSpecHeat
    \/ Demo_Allocate \/ Demo_ForIdx \/ Demo_Body \/ Demo_Solution
    \/ Demo_SetTPX \/ Demo_CJspeed \/ Demo_PostShock \/ Demo_SoundEq
    \/ Demo_SoundFr \/ Demo_Derive \/ Demo_Plot
    \/ ZND_Setup \/ ZND_Solution \/ ZND_SetTPX \/ ZND_CJspeed
    \/ ZND_PostShock \/ ZND_Record \/ ZND_Reactor \/ ZND_ReactorNet
    \/ ZND_Timesteps \/ ZND_ForT \/ ZND_Advance \/ ZND_Poll \/ ZND_Print

Spec == Init /\ [][Next]_vars

\* the ZND script alone.  A script is one sequential thread: while a statement
\* remains, it is executed.
InitZND == Init /\ script = "ZNDDetPostShock"

NextZND ==
    \/ ZND_Setup \/ ZND_Solution \/ ZND_SetTPX \/ ZND_CJspeed
    \/ ZND_PostShock \/ ZND_Record \/ ZND_Reactor \/ ZND_ReactorNet
    \/ ZND_Timesteps \/ ZND_ForT \/ ZND_Advance \/ ZND_Poll \/ ZND_Print

FairSpecZND == InitZND /\ [][NextZND]_vars /\ WF_vars(NextZND)

(* ============================== properties ============================ *)
(* ---- what the grid and the library imply for a grid point ---- *)
GridT == <<300, 300, 600>>
GridP == <<100, 500, 100>>
\* 2.2 + 7 * j / (n - 1)
GridComp(j, n) == Norm(22 * (n - 1) + 70 * j, 10 * (n - 1))
ExpectedQ(p, whole) ==
    [C3H8 |-> p,
     O2 |-> Norm(21 * (whole * p[2] - p[1]), 100 * p[2]),
     N2 |-> Norm(79 * (whole * p[2] - p[1]), 100 * p[2])]

ExpectedState(T1, P1, q) ==
    LET g0 == SetTPX(Solution("gri30.cti"), T1, P1, q)
        U == CJspeedValue(P1, T1, q, "gri30.cti")
        g == PostShock_eq(U, P1, T1, q, "gri30.cti")
    IN  [cj |-> U, gas |-> g, rho_1 |-> g0.density,
         csound |-> soundspeed_eq(g0), af |-> soundspeed_fr(g)]

DPExpected(i, j) ==
    ExpectedState(GridT[i + 1], GridP[i + 1] * 1000,
                  ExpectedQ(GridComp(j, NCompDet), 100))

DemoExpected(j) ==
    ExpectedState(300, 100 * 1000, ExpectedQ(GridComp(j, NCompDemo), 100))

FiveArrays == {"detonation_speed", "product_temp", "product_press",
               "detonation_mach", "product_specificheat"}

\* the value of a result array at a grid point with expected state e
ExpectedCell(name, e) ==
    CASE name = "detonation_speed" -> R(e.cj)
      [] name = "product_temp" -> R(e.gas.T)
      [] name = "product_press" -> R(e.gas.P)
      [] name = "detonation_mach" -> Norm(e.cj, e.csound)
      [] name = "product_specificheat" ->
             Norm(e.af * e.af * e.gas.density, e.gas.P)

PlotPcs == {"plot_speed", "plot_temp", "plot_press", "plot_mach",
            "plot_specheat"}

\* C3: the result arrays are filled in loop order, in parallel with the grid.
\* In DetProperties, when the iteration for (IC, idx) has finished, the written
\* cells of the five result arrays are those (i, j) with i < IC, or i = IC and
\* j <= idx; each cell is written once and cell [i, j] holds the value derived
\* from inittemp[i], initpress[i] and compositions[j]; at the end of the sweep
\* all 3 x 30 cells are written (all 12 of detonation_speed in demo_CJstate).
C3_FilledInLoopOrder ==
    /\ (script = "DetProperties" /\ pc # "start") =>
          LET nDone == Len(stdout)
          IN  /\ \A i \in 0..2 : \A j \in 0..(NCompDet - 1) :
                    LET written == i * NCompDet + j < nDone
                        e == DPExpected(i, j)
                    IN  \A name \in FiveArrays :
                           /\ nwrites[name][i][j] = IF written THEN 1 ELSE 0
                           /\ heap[arr[name]][i][j] =
                                  IF written THEN ExpectedCell(name, e)
                                  ELSE R(0)
              /\ (pc = "for_idx" /\ loc.iterIdx = loc.idx + 1) =>
                    \A i \in 0..2 : \A j \in 0..(NCompDet - 1) :
                        (i * NCompDet + j < nDone) <=>
                            (i < loc.IC \/ (i = loc.IC /\ j <= loc.idx))
              /\ pc \in PlotPcs \cup {"done"} => nDone = 3 * NCompDet
    /\ (script = "demo_CJstate" /\ pc # "start") =>
          LET nDone == Len(SelectSeq(stdout, LAMBDA e : e.line = "CJspeed"))
          IN  /\ \A j \in 0..(NCompDemo - 1) :
                    /\ nwrites["detonation_speed"][0][j] =
                           IF j < nDone THEN 1 ELSE 0
                    /\ heap[arr.detonation_speed][j] =
                           IF j < nDone THEN R(DemoExpected(j).cj) ELSE R(0)
              /\ (pc = "for_idx" /\ loc.iterIdx = loc.idx + 1) =>
                    nDone = loc.idx + 1
              /\ pc \in {"plot", "done"} => nDone = NCompDemo

\* the iteration for (1, 4) of DetProperties has just finished
C3_Witness ==
    /\ script = "DetProperties" /\ pc = "for_idx"
    /\ loc.IC = 1 /\ loc.idx = 4 /\ loc.iterIdx = 5
    /\ nwrites["product_temp"][1][4] = 1
    /\ nwrites["product_temp"][1][5] = 0

\* C10: in DetProperties the arrays share no storage: the iteration for
\* (IC, idx) changes only cell [IC, idx] of the five result arrays; every other
\* cell, the compositions grid and the arrays detionation_speed and
\* calc_detspeed are left alone, the latter two all zero for the whole run.
C10_State ==
    (script = "DetProperties" /\ pc # "start") =>
        /\ \A a \in DOMAIN arr : \A b \in DOMAIN arr :
               a # b => arr[a] # arr[b]
        /\ \A i \in 0..2 : \A j \in 0..(NCompDet - 1) :
               /\ heap[arr.detionation_speed][i][j] = R(0)
               /\ heap[arr.calc_detspeed][i][j] = R(0)
        /\ \A j \in 0..(NCompDet - 1) :
               heap[arr.compositions][j] = GridComp(j, NCompDet)

C10_Step ==
    script = "DetProperties" =>
        \A r \in DOMAIN heap :
            heap'[r] # heap[r] =>
                /\ pc = "derive"
                /\ \E name \in FiveArrays : arr[name] = r
                /\ \A i \in 0..2 : \A j \in 0..(NCompDet - 1) :
                       <<i, j>> # <<loc.IC, loc.idx>> =>
                           heap'[r][i][j] = heap[r][i][j]

\* C10: the arrays are distinct and the untouched ones stay as allocated
\* (C10_State), and every step changes at most cell [IC, idx] of the five
\* result arrays, and only when an iteration stores its results (C10_Step).
C10_NoSharedStorage == [](C10_State) /\ [][C10_Step]_vars

\* the iteration for (2, 0) has stored its results; calc_detspeed is untouched
C10_Witness ==
    /\ script = "DetProperties" /\ pc = "for_idx"
    /\ loc.IC = 2 /\ loc.idx = 0 /\ loc.iterIdx = 1
    /\ heap[arr.product_temp][2][0] # R(0)
    /\ heap[arr.calc_detspeed][2][0] = R(0)

\* C5: the composition mapping built from a fuel percentage p has exactly the
\* entries C3H8 = p, O2 = (100 - p) * 0.21 and N2 = (100 - p) * 0.79, which sum
\* to 100 with O2 : N2 = 21 : 79 (in the ZND script on a scale of 1).
C5_Composition ==
    (loc.mech # "" /\ pc # "body") =>
        LET q == loc.q
            whole == IF script = "ZNDDetPostShock" THEN 1 ELSE 100
            p == IF script = "ZNDDetPostShock" THEN <<23, 250>>
                 ELSE IF script = "DetProperties"
                      THEN GridComp(loc.idx, NCompDet)
                      ELSE GridComp(loc.idx, NCompDemo)
        IN  /\ DOMAIN q = {"C3H8", "O2", "N2"}
            /\ q.C3H8 = p
            /\ q.O2 = RMul(RSub(R(whole), p), <<21, 100>>)
            /\ q.N2 = RMul(RSub(R(whole), p), <<79, 100>>)
            /\ RAdd(RAdd(q.C3H8, q.O2), q.N2) = R(whole)
            /\ RMul(q.O2, R(79)) = RMul(q.N2, R(21))

\* the mapping of the richest mixture, 9.2 % propane, has been built
C5_Witness ==
    /\ script = "DetProperties" /\ pc = "CJspeed"
    /\ loc.IC = 2 /\ loc.idx = 29
    /\ loc.q.C3H8 = <<46, 5>>
    /\ loc.q.O2 = <<4767, 250>>

\* C6: every derived quantity of a grid point comes from values of that grid
\* point: Mach number = CJ speed / sound speed of the unshocked gas,
\* w2 = cj_speed * rho_1 / rho_2, u2 = cj_speed - w2, hence w2 + u2 = cj_speed
\* and rho_1 * cj_speed = rho_2 * w2.
C6_Derived ==
    script \in {"DetProperties", "demo_CJstate"} =>
        \A k \in 1..Len(stdout) :
            stdout[k].line = "CJ state" =>
                LET e == stdout[k]
                    i == e.point[1]
                    j == e.point[2]
                    x == IF script = "DetProperties" THEN DPExpected(i, j)
                         ELSE DemoExpected(j)
                IN  /\ e.cj_speed = x.cj
                    /\ e.rho_1 = x.rho_1
                    /\ e.rho_2 = x.gas.density
                    /\ e.w2 = Norm(x.cj * x.rho_1, x.gas.density)
                    /\ e.u2 = RSub(R(x.cj), e.w2)
                    /\ RAdd(e.w2, e.u2) = R(x.cj)
                    /\ R(x.rho_1 * x.cj) = RMul(R(x.gas.density), e.w2)
                    /\ script = "DetProperties" =>
                           /\ e.mach = Norm(x.cj, x.csound)
                           /\ heap[arr.detonation_mach][i][j] = e.mach

\* the quantities of grid point (1, 4) have been derived and printed
C6_Witness ==
    /\ script = "DetProperties"
    /\ Len(stdout) = NCompDet + 5
    /\ stdout[Len(stdout)].point = <<1, 4>>
    /\ stdout[Len(stdout)].w2 # stdout[Len(stdout)].u2

\* the legend text of an initial condition
ConditionLabel(T, P) ==
    "T$_0$=" \o ToString(T) \o " K, P$_0$=" \o ToString(P) \o " kPa"

FigArray == <<"detonation_speed", "product_temp", "product_press",
              "detonation_mach", "product_specificheat">>
FigFile == <<"Figures/DetSpeed.png", "Figures/DetTemp.png",
             "Figures/DetPress.png", "Figures/DetMach.png",
             "Figures/DetSpecHeat.png">>
\* what figure f plots of a cell
FigValue(f, v) == IF f = 3 THEN RDiv(v, R(101325)) ELSE v

\* C7: DetProperties pairs initial temperature and pressure index-wise (three
\* conditions), each with all 30 compositions, visited once in condition-major
\* order, the pressure handed to the library in Pa; each plotted curve's
\* legend names the condition of its row: (300 K, 100 kPa), (300 K, 500 kPa),
\* (600 K, 100 kPa).
C7_GridAndLegend ==
    script = "DetProperties" =>
        LET cjs == SelectSeq(log, LAMBDA e : e.fn = "CJspeed")
        IN  /\ Len(cjs) <= 3 * NCompDet
            /\ \A k \in 1..Len(cjs) :
                  LET i == (k - 1) \div NCompDet
                      j == (k - 1) % NCompDet
                  IN  /\ cjs[k].point = <<i, j>>
                      /\ cjs[k].args =
                            <<GridP[i + 1] * 1000, GridT[i + 1],
                              ExpectedQ(GridComp(j, NCompDet), 100),
                              "gri30.cti", TRUE>>
            /\ pc \in PlotPcs \cup {"done"} => Len(cjs) = 3 * NCompDet
            /\ \A f \in 1..Len(figs) :
                  LET cs == figs[f].fig.curves
                      base == Len(cs) - 3
                  IN  /\ base >= 0
                      /\ Len(figs[f].fig.legend) = Len(cs)
                      /\ \A r \in 0..2 :
                            /\ cs[base + r + 1].label =
                                   ConditionLabel(GridT[r + 1], GridP[r + 1])
                            /\ figs[f].fig.legend[base + r + 1] =
                                   cs[base + r + 1].label
                            /\ cs[base + r + 1].y =
                                   [j \in 0..(NCompDet - 1) |->
                                       FigValue(f, ExpectedCell(FigArray[f],
                                                    DPExpected(r, j)))]

\* all five figures are saved, with the second curve labelled 300 K, 500 kPa
C7_Witness ==
    /\ script = "DetProperties" /\ pc = "done"
    /\ Len(figs) = 5
    /\ figs[1].fig.curves[2].label = "T$_0$=300 K, P$_0$=500 kPa"

C2_PostShockAfterCJ ==
    \A k \in 1..Len(log) :
        /\ log[k].fn \in {"PostShock_eq", "PostShock_fr"} =>
               /\ k > 1
               /\ log[k - 1].fn = "CJspeed"
               /\ log[k - 1].ok
               /\ log[k - 1].point = log[k].point
               /\ SubSeq(log[k - 1].args, 1, 4) = Tail(log[k].args)
               /\ log[k].args[1] = (IF log[k - 1].args[5]
                                    THEN log[k - 1].ret[1]
                                    ELSE log[k - 1].ret)
        /\ (log[k].fn = "CJspeed" /\ log[k].ok /\ k < Len(log)) =>
               log[k + 1].fn \in {"PostShock_eq", "PostShock_fr"}

\* the post-shock solver has just been called at grid point (1, 3)
C2_Witness ==
    /\ script = "DetProperties"
    /\ Len(log) > 0
    /\ log[Len(log)].fn = "PostShock_eq"
    /\ log[Len(log)].ok
    /\ log[Len(log)].point = <<1, 3>>

\* C4: a failure of any library call ends the script at once: the call is
\* not retried, no later grid point or scan step is processed, no further
\* library call is made, no figure is plotted or saved and the ZND script
\* prints no autoignition delay.
C4_Inv ==
    /\ (exc # "") <=> (\E k \in 1..Len(log) : ~log[k].ok)
    /\ exc # "" =>
           /\ pc = "exit"
           /\ log[Len(log)].fn = exc
           /\ \A k \in 1..Len(log) : ~log[k].ok => k = Len(log)
           /\ figs = <<>>
           /\ curfig = NoFig
           /\ \A k \in 1..Len(stdout) : stdout[k].line # "delay"

\* C4: once a library call has failed the run has ended as C4_Inv describes,
\* and no step is ever taken from a state in which a call has failed.
C4_FailureTerminates == [](C4_Inv) /\ [][exc = ""]_vars

\* the post-shock solver failed at grid point (2, 4) of DetProperties
C4_Witness ==
    /\ script = "DetProperties"
    /\ exc = "PostShock_eq"
    /\ Point = <<2, 4>>

\* calls of sim1.advance, attempted and completed
AdvanceAttempts == SelectSeq(log, LAMBDA e : e.fn = "advance")
Advances == SelectSeq(log, LAMBDA e : e.fn = "advance" /\ e.ok)
FrozenCalls == SelectSeq(log, LAMBDA e : e.fn = "PostShock_fr" /\ e.ok)
\* a > b for fractions with positive denominators
RGt(a, b) == a[1] * b[2] > b[1] * a[2]
\* k * dt with dt = 0.25 / n_steps
ScanTime(k) == Norm(k, 4 * n_steps)

\* C1: in the ZND ignition scan the network is advanced to dt, 2*dt, ... in
\* strictly increasing order; the scan stops at the first step k whose polled
\* temperature is strictly above shockedtemp + 150 (shockedtemp being the
\* frozen post-shock temperature recorded before the integration): then
\* det_time = k*dt, no earlier step was above the threshold and no advance
\* follows step k.
C1_ScanStopsAtFirstIgnition ==
    script = "ZNDDetPostShock" =>
        LET att == AdvanceAttempts
            adv == Advances
            n == Len(adv)
            thr == loc.shockedtemp + 150
        IN  /\ \A k \in 1..Len(att) : att[k].args[1] = ScanTime(k)
            /\ \A k \in 1..(Len(att) - 1) :
                    RGt(att[k + 1].args[1], att[k].args[1])
            /\ Len(att) > 0 =>
                    /\ Len(FrozenCalls) = 1
                    /\ loc.shockedtemp = FrozenCalls[1].ret.T
            /\ \A k \in 1..n :
                    adv[k].ret > thr =>
                        /\ k = n
                        /\ Len(att) = n
                        /\ pc \in {"poll", "print", "done"}
            /\ pc \in {"print", "done"} =>
                    /\ n > 0
                    /\ adv[n].ret > thr \/ n = n_steps
                    /\ adv[n].ret > thr => loc.det_time = ScanTime(n)
            /\ pc = "done" =>
                    stdout[Len(stdout)] =
                        [line |-> "delay", det_time |-> loc.det_time]

\* the scan stopped at step 2, the first above the threshold, after a step
\* exactly at the threshold
C1_Witness ==
    /\ script = "ZNDDetPostShock" /\ pc = "done"
    /\ Len(Advances) = 2
    /\ Advances[1].ret = loc.shockedtemp + 150
    /\ Advances[2].ret = loc.shockedtemp + 151
    /\ loc.det_time = ScanTime(2)

\* C9: the ZND scan ends after at most n_steps advance calls; after every
\* completed step det_time is dt times the number of advance calls made; if
\* the temperature never exceeds the threshold the script still prints a
\* delay, n_steps * dt = 0.25 s, the value it also prints when the threshold is
\* first exceeded on the last step.
C9_Inv ==
    script = "ZNDDetPostShock" =>
        LET adv == Advances
            n == Len(adv)
            thr == loc.shockedtemp + 150
            printed == stdout[Len(stdout)]
        IN  /\ Len(AdvanceAttempts) <= n_steps
            /\ pc \in {"for_t", "advance", "poll", "print", "done"} =>
                    loc.det_time = RMul(R(n), RDiv(<<1, 4>>, R(n_steps)))
            /\ pc = "done" /\ (\A k \in 1..n : ~(adv[k].ret > thr)) =>
                    printed = [line |-> "delay", det_time |-> <<1, 4>>]
            /\ pc = "done" /\ n = n_steps =>
                    printed = [line |-> "delay", det_time |-> <<1, 4>>]

\* C9: the bound on the advance calls, det_time and the printed delay hold
\* throughout (C9_Inv), and the run of the ZND script ends.
C9_ScanTerminates ==
    /\ [](C9_Inv)
    /\ (script = "ZNDDetPostShock") => <>(pc \in {"done", "exit"})

\* the scan ran to its last step without the threshold being exceeded
C9_Witness ==
    /\ script = "ZNDDetPostShock" /\ pc = "done"
    /\ Len(Advances) = n_steps
    /\ \A k \in 1..n_steps : Advances[k].ret <= loc.shockedtemp + 150
    /\ stdout[Len(stdout)].det_time = <<1, 4>>

====
